---------------------------- MODULE Spec2Model ----------------------------
(***************************************************************************)
(* A model of the Mongo_tools repository:                                  *)
(*   src/mongo_copy_tool_v2.py  bulk copy of collections, options and      *)
(*                              indexes, view copy, change stream applier  *)
(*   src/mongo_diff_tool.py     field-by-field comparison of documents     *)
(***************************************************************************)
EXTENDS Integers, Sequences, FiniteSets, TLC

VARIABLES
    primary,            \* primary_db: name -> the source's collection or view
    secondary,          \* secondary_db: name -> the target's collection or view
    log,                \* the records written through logging
    calls,              \* name -> the write calls made on secondary_db, in order
    main_pc,            \* "idle", or "bulk" inside copy_all_collections_concurrently
    runs,               \* calls of copy_all_collections_concurrently so far
    at_run_start,       \* secondary_db as the latest bulk copy run found it
    pc,                 \* collection -> position of its copy_collection_if_not_exists
    cursor,             \* collection -> documents its cursor has yielded
    buffer,             \* collection -> buffer of copy_documents_in_batches
    attempt,            \* collection -> failed attempts of the running batch_insert
    retry_error,        \* collection -> the run whose batch_insert gave up (0: none)
    idx,                \* collection -> position in primary_indexes
    secondary_indexes,  \* collection -> index_information() of the target (line 78)
    view_pc,            \* view -> position of copy_views_if_not_exists for it
    faults,             \* store calls that have failed so far
    feed_pc,            \* position of start_db_change_stream
    probe,              \* what replSetGetStatus answered (line 210)
    change,             \* the change event the loop of line 224 holds
    consumed,           \* change events the loop has taken from the stream
    stream,             \* the change events the source's feed can deliver
    doc1,               \* compare_fields: first document
    doc2,               \* compare_fields: second document
    differences,        \* compare_fields: the returned list
    diff_pc,            \* "ready" before the call, "done" after it
    cmp_pc,             \* position of compare_all_collections
    common_collections, \* the names the loop of line 230 has still to take
    collection_name     \* the name the loop of line 230 holds

storeVars == <<primary, secondary, log, calls, faults>>

copyVars == <<main_pc, runs, at_run_start, pc, cursor, buffer, attempt, idx,
              secondary_indexes, view_pc, retry_error>>

feedVars == <<feed_pc, probe, change, consumed, stream>>

cmpVars == <<cmp_pc, common_collections, collection_name>>

diffVars == <<doc1, doc2, differences, diff_pc, cmpVars>>

vars == <<storeVars, copyVars, feedVars, diffVars>>

---------------------------------------------------------------------------
(* Bounds of the model.                                                    *)

\* documents of a source collection
MaxDocs == 3
\* store calls that fail in one behaviour
MaxFaults == 3
\* change events the change stream delivers
MaxEvents == 2
\* consecutive bulk copy runs
MaxRuns == 2
\* nesting depth of the values compare_fields is given in field "a"
MaxDepth == 1

\* BATCH_SIZE (line 13), scaled down from 1000 to the size of the model
BATCH_SIZE == 2

\* stop_after_attempt(3) (line 26)
MaxAttempts == 3

\* ThreadPoolExecutor(max_workers=4) (line 269)
max_workers == 4

---------------------------------------------------------------------------
(* The two databases, as far as the tool reaches them through pymongo.     *)

CollNames == {"a", "b"}
ViewNames == {"v"}
Names == CollNames \cup ViewNames

\* a Python dict with no item
EmptyDict == <<>>

\* a Python dict without the item named key: dict.pop(key, None)
Pop(dict, key) == [k \in DOMAIN dict \ {key} |-> dict[k]]

\* the index every collection gets on creation
IdIndex == [name |-> "_id_", key |-> << <<"_id", "1">> >>, opts |-> {"v=2"}]

\* the key direction/type tokens the server accepts, as the list of line 103
ValidSpecifiers == {"1", "-1", "2d", "2dsphere", "text", "hashed"}

\* a name the database does not hold
Absent == [exists |-> FALSE, options |-> EmptyDict, docs |-> <<>>, indexes |-> <<>>]

NewCollection(options) ==
    [exists |-> TRUE, options |-> options, docs |-> <<>>,
     indexes |-> IF "viewOn" \in DOMAIN options THEN <<>> ELSE <<IdIndex>>]

\* a write to a collection that does not exist creates it, with default options
Implicit(coll) == IF coll.exists THEN coll ELSE NewCollection(EmptyDict)

\* the names of the views alone
list_view_names(db) ==
    {n \in DOMAIN db : db[n].exists /\ "viewOn" \in DOMAIN db[n].options}

\* db.list_collection_names()
list_collection_names(db) == {n \in DOMAIN db : db[n].exists}

\* db.create_collection(name, **options): raises CollectionInvalid when the
\* name exists
create_collection(coll, options) ==
    IF coll.exists
    THEN [raised |-> TRUE, coll |-> coll]
    ELSE [raised |-> FALSE, coll |-> NewCollection(options)]

Ids(docs) == {docs[i]._id : i \in 1..Len(docs)}

RECURSIVE InsertOrdered(_, _)
\* an ordered bulk insert stops at the first duplicate _id and keeps what it
\* had inserted before it
InsertOrdered(docs, documents) ==
    IF documents = <<>> THEN [raised |-> FALSE, docs |-> docs]
    ELSE IF Head(documents)._id \in Ids(docs) THEN [raised |-> TRUE, docs |-> docs]
    ELSE InsertOrdered(Append(docs, Head(documents)), Tail(documents))

\* collection.insert_many(documents)
insert_many(coll, documents) ==
    LET r == InsertOrdered(Implicit(coll).docs, documents)
    IN  [raised |-> r.raised, coll |-> [Implicit(coll) EXCEPT !.docs = r.docs]]

RECURSIVE GenIndexName(_)
\* the name pymongo gives an index created without one: "_".join("%s_%s")
GenIndexName(keys) ==
    IF Len(keys) = 1 THEN keys[1][1] \o "_" \o keys[1][2]
    ELSE keys[1][1] \o "_" \o keys[1][2] \o "_" \o GenIndexName(Tail(keys))

\* collection.create_index(keys, **kwargs); kwargs carries no name.  The
\* server refuses a key token it does not know and an index that conflicts
\* with an existing one, and accepts again an index it already has.
create_index(coll, keys, kwargs) ==
    LET new == [name |-> GenIndexName(keys), key |-> keys, opts |-> kwargs]
        have == Implicit(coll).indexes
        Hits(ix) == ix.name = new.name \/ ix.key = keys
    IN  IF \E i \in 1..Len(keys) : keys[i][2] \notin ValidSpecifiers
        THEN [raised |-> TRUE, coll |-> coll]
        ELSE IF keys = IdIndex.key
        THEN [raised |-> FALSE, coll |-> Implicit(coll)]
        ELSE IF \E i \in 1..Len(have) : have[i] = new
        THEN [raised |-> FALSE, coll |-> coll]
        ELSE IF \E i \in 1..Len(have) : Hits(have[i])
        THEN [raised |-> TRUE, coll |-> coll]
        ELSE [raised |-> FALSE,
              coll |-> [Implicit(coll) EXCEPT !.indexes = Append(@, new)]]

\* the outcomes of one call on a store: it works, or the store fails it
Outcomes == {"ok"} \cup (IF faults < MaxFaults THEN {"fault"} ELSE {})

Logged(level, line, name) == [level |-> level, line |-> line, name |-> name]

---------------------------------------------------------------------------
(* The source database.                                                    *)

\* what a cursor over a source collection of n documents yields, in order
SourceDocs(n) == [i \in 1..n |-> [_id |-> i, status |-> 1]]

CollationWithLocale == [locale |-> "en", strength |-> "2"]
CollationNoLocale == [strength |-> "2"]

\* the options of a source collection (listCollections, line 56)
OptionChoices ==
    { EmptyDict,
      [validator |-> "schema"],
      [collation |-> CollationWithLocale, validator |-> "schema"],
      [collation |-> CollationNoLocale, validator |-> "schema"],
      [collation |-> CollationNoLocale],
      [capped |-> "True", size |-> "4096", max |-> "10"],
      [capped |-> "True", size |-> "4096", collation |-> CollationWithLocale] }

\* indexes of a source collection: a compound index in default naming that
\* carries the 'ns' field, an index with a name of its own, and an index
\* whose second key token is none the server knows
ByStatus ==
    [name |-> "status_1__id_-1",
     key |-> << <<"status", "1">>, <<"_id", "-1">> >>, opts |-> {"v=2", "ns"}]
ByHash ==
    [name |-> "by_hash", key |-> << <<"status", "hashed">> >>,
     opts |-> {"v=2", "sparse"}]
BadIndex ==
    [name |-> "loc_2dsphere_status_0",
     key |-> << <<"loc", "2dsphere">>, <<"status", "0">> >>,
     opts |-> {"v=2", "unique"}]

\* index_information() of a source collection, in its iteration order
IndexChoices ==
    { <<IdIndex>>, <<IdIndex, ByStatus>>, <<IdIndex, BadIndex, ByHash>>,
      <<IdIndex, ByStatus, BadIndex>>, <<IdIndex, ByStatus, ByHash>> }

SourceCollections(options, sizes, indexes) ==
    {[type |-> "collection", options |-> o, docs |-> SourceDocs(n), indexes |-> ix] :
        o \in options, n \in sizes, ix \in indexes}

\* the options of a source view (list_collections, line 167)
ViewOptionChoices ==
    { [viewOn |-> "a", pipeline |-> "p"],
      [viewOn |-> "a", pipeline |-> "p", collation |-> CollationWithLocale],
      [viewOn |-> "a", pipeline |-> "p", collation |-> CollationNoLocale],
      [viewOn |-> "a", pipeline |-> "p", collation |-> EmptyDict] }

SourceViews ==
    {[type |-> "view", options |-> o, docs |-> <<>>, indexes |-> <<>>] :
        o \in ViewOptionChoices}

---------------------------------------------------------------------------
(* Bulk copy: copy_all_collections_concurrently and what it calls.         *)

Terminal == {"idle", "done", "skipped", "raised"}

\* tasks a worker thread of the pool is running
Running == Cardinality({c \in CollNames : pc[c] \notin Terminal \cup {"queued"}})

SetPc(c, to) == pc' = [pc EXCEPT ![c] = to]

\* copy_all_collections_concurrently: enumerate the source's collections and
\* submit one task per name (lines 268-270)
StartBulkCopy ==
    /\ main_pc = "idle"
    /\ runs < MaxRuns
    /\ \A v \in ViewNames : view_pc[v] = "todo"
    /\ main_pc' = "bulk"
    /\ runs' = runs + 1
    /\ at_run_start' = secondary
    /\ pc' = [c \in CollNames |->
                IF primary[c].type = "collection" THEN "queued" ELSE "idle"]
    /\ cursor' = [c \in CollNames |-> 0]
    /\ buffer' = [c \in CollNames |-> <<>>]
    /\ attempt' = [c \in CollNames |-> 0]
    /\ idx' = [c \in CollNames |-> 0]
    /\ secondary_indexes' = [c \in CollNames |-> <<>>]
    /\ calls' = [n \in Names |-> <<>>]
    /\ UNCHANGED <<primary, secondary, log, faults, view_pc, retry_error,
                   feedVars, diffVars>>

\* copy_collection_if_not_exists, line 139: the existence check
CheckExists(c) ==
    /\ main_pc = "bulk"
    /\ pc[c] = "queued"
    /\ Running < max_workers
    /\ IF c \in list_collection_names(secondary)
       THEN /\ SetPc(c, "skipped")
            /\ log' = log \cup {Logged("info", 160, c)}
       ELSE /\ SetPc(c, "create")
            /\ log' = log \cup {Logged("info", 140, c)}
    /\ UNCHANGED <<primary, secondary, calls, faults, main_pc, runs, at_run_start, retry_error,
                   cursor, buffer, attempt, idx, secondary_indexes, view_pc,
                   feedVars, diffVars>>

\* options.get('capped') (lines 125, 145)
IsCapped(options) == "capped" \in DOMAIN options /\ options.capped = "True"

\* lines 59-61: a collation without a locale is dropped
AmendedOptions(options) ==
    IF "collation" \in DOMAIN options /\ "locale" \notin DOMAIN options.collation
    THEN Pop(options, "collation")
    ELSE options

\* a creation call that forgets the bound on the number of documents
CappedBySizeOnly(options) ==
    [capped |-> "True", size |-> options.size, max |-> "None"]

\* the keyword arguments of the create_collection call of lines 126-131
CappedOptions(options) ==
    [capped |-> "True", size |-> options.size,
     max |-> IF "max" \in DOMAIN options THEN options.max ELSE "None"]

\* what a call on the target's name n returns: the store's answer, or an
\* exception and nothing written when the store fails the call
Attempted(outcome, n, answer) ==
    IF outcome = "ok" THEN answer ELSE [raised |-> TRUE, coll |-> secondary[n]]

\* the effect of one write call on the target's name n
Called(n, outcome, r, call) ==
    /\ secondary' = [secondary EXCEPT ![n] = r.coll]
    /\ calls' = [calls EXCEPT ![n] = Append(@, call @@ [ok |-> ~r.raised])]
    /\ faults' = faults + (IF outcome = "fault" THEN 1 ELSE 0)

\* copy_collection_options (lines 52-67), reached from line 149
copy_collection_options(c) ==
    /\ pc[c] = "create"
    /\ ~IsCapped(primary[c].options)
    /\ LET options == AmendedOptions(primary[c].options)
           warned == IF options # primary[c].options
                     THEN {Logged("warning", 60, c)} ELSE {}
       IN  IF DOMAIN options # {}
           THEN \E outcome \in Outcomes :
                  LET r == Attempted(outcome, c,
                                     create_collection(secondary[c], options))
                  IN  /\ Called(c, outcome, r,
                                [op |-> "create_collection", options |-> options])
                      /\ IF r.raised
                         THEN /\ SetPc(c, "raised")
                              /\ log' = log \cup warned
                         ELSE /\ SetPc(c, "scan")
                              /\ log' = log \cup warned \cup {Logged("info", 65, c)}
           ELSE /\ SetPc(c, "scan")
                /\ log' = log \cup warned \cup {Logged("info", 67, c)}
                /\ UNCHANGED <<secondary, calls, faults>>
    /\ UNCHANGED <<primary, main_pc, runs, at_run_start, retry_error, cursor, buffer, attempt,
                   idx, secondary_indexes, view_pc, feedVars, diffVars>>

\* copy_capped_collection_if_not_exists (lines 118-132), reached from line 146
copy_capped_collection_if_not_exists(c) ==
    /\ pc[c] = "create"
    /\ IsCapped(primary[c].options)
    /\ \E outcome \in Outcomes :
         LET options == CappedOptions(primary[c].options)
             r == Attempted(outcome, c, create_collection(secondary[c], options))
         IN  /\ Called(c, outcome, r,
                       [op |-> "create_collection", options |-> options])
             /\ IF r.raised
                THEN /\ SetPc(c, "raised")
                     /\ UNCHANGED log
                ELSE /\ SetPc(c, "read_indexes")
                     /\ log' = log \cup {Logged("info", 132, c)}
    /\ UNCHANGED <<primary, main_pc, runs, at_run_start, retry_error, cursor, buffer, attempt,
                   idx, secondary_indexes, view_pc, feedVars, diffVars>>

\* a threshold one document above that of line 44
BufferOverFull(appended) == Len(appended) > BATCH_SIZE

\* line 44: len(buffer) >= BATCH_SIZE
BufferFull(appended) == Len(appended) >= BATCH_SIZE

\* a copy that leaves the partial batch behind and goes to the indexes
IndexesFirst(remaining) == "read_indexes"

\* lines 48-49, then line 156: the partial batch is flushed before the
\* indexes are reconciled
AfterScan(remaining) ==
    IF remaining # <<>> THEN "last_flush" ELSE "read_indexes"

\* copy_documents_in_batches, lines 42-44 and 48: the cursor yields the next
\* document, or ends
ScanNext(c) ==
    /\ pc[c] = "scan"
    /\ \E outcome \in Outcomes :
         /\ faults' = faults + (IF outcome = "fault" THEN 1 ELSE 0)
         /\ IF outcome = "fault"
            THEN /\ SetPc(c, "raised")
                 /\ UNCHANGED <<cursor, buffer>>
            ELSE IF cursor[c] < Len(primary[c].docs)
            THEN LET document == primary[c].docs[cursor[c] + 1]
                     appended == Append(buffer[c], document)
                 IN  /\ cursor' = [cursor EXCEPT ![c] = @ + 1]
                     /\ buffer' = [buffer EXCEPT ![c] = appended]
                     /\ SetPc(c, IF BufferFull(appended) THEN "flush" ELSE "scan")
            ELSE /\ SetPc(c, AfterScan(buffer[c]))
                 /\ UNCHANGED <<cursor, buffer>>
    /\ UNCHANGED <<primary, secondary, log, calls, main_pc, runs, at_run_start, retry_error,
                   attempt, idx, secondary_indexes, view_pc, feedVars, diffVars>>

\* a stop one attempt later than that of line 26
StopAfterOneMore(made) == made >= MaxAttempts + 1

\* tenacity's stop_after_attempt: no further attempt once this many were made
StopAfterAttempt(made) == made >= MaxAttempts

\* batch_insert (lines 26-32), one attempt of it, from line 45 ("flush") or
\* line 49 ("last_flush"); line 46 clears the buffer after the call of line 45
batch_insert(c) ==
    /\ pc[c] \in {"flush", "last_flush"}
    /\ LET next == IF pc[c] = "flush" THEN "scan" ELSE "read_indexes"
           cleared == IF pc[c] = "flush" THEN <<>> ELSE buffer[c]
       IN  IF buffer[c] # <<>>
           THEN \E outcome \in Outcomes :
                  LET r == Attempted(outcome, c,
                                     insert_many(secondary[c], buffer[c]))
                  IN  /\ Called(c, outcome, r,
                                [op |-> "insert_many", documents |-> buffer[c]])
                      /\ IF r.raised
                         THEN /\ attempt' = [attempt EXCEPT ![c] = @ + 1]
                              /\ SetPc(c, IF StopAfterAttempt(attempt[c] + 1)
                                          THEN "raised" ELSE pc[c])
                              /\ retry_error' =
                                   IF StopAfterAttempt(attempt[c] + 1)
                                   THEN [retry_error EXCEPT ![c] = runs]
                                   ELSE retry_error
                              /\ UNCHANGED buffer
                         ELSE /\ attempt' = [attempt EXCEPT ![c] = 0]
                              /\ SetPc(c, next)
                              /\ buffer' = [buffer EXCEPT ![c] = cleared]
                              /\ UNCHANGED retry_error
           ELSE /\ SetPc(c, next)
                /\ UNCHANGED <<secondary, calls, faults, attempt, buffer,
                               retry_error>>
    /\ UNCHANGED <<primary, log, main_pc, runs, at_run_start, cursor, idx,
                   secondary_indexes, view_pc, feedVars, diffVars>>

\* copy_indexes_if_not_exists, lines 77-78: both index_information() reads
ReadIndexes(c) ==
    /\ pc[c] = "read_indexes"
    /\ secondary_indexes' = [secondary_indexes EXCEPT ![c] = secondary[c].indexes]
    /\ idx' = [idx EXCEPT ![c] = 1]
    /\ SetPc(c, "indexes")
    /\ UNCHANGED <<storeVars, main_pc, runs, at_run_start, retry_error, cursor, buffer, attempt,
                   view_pc, feedVars, diffVars>>

\* secondary_indexes.get(index_name) with 'ns' popped (lines 81, 86-87)
NoneInfo == [none |-> TRUE]

\* a lookup that finds no index on the target
MissingInfo(indexes, name) == NoneInfo

IndexInfo(indexes, name) ==
    IF \E i \in 1..Len(indexes) : indexes[i].name = name
    THEN LET ix == indexes[CHOOSE i \in 1..Len(indexes) : indexes[i].name = name]
         IN  [key |-> ix.key, opts |-> ix.opts \ {"ns"}]
    ELSE NoneInfo

\* a validation that lets every key token through
always_valid_key(index_keys) == TRUE

\* lines 101-106: every key token is one of the valid specifiers
valid_key(index_keys) ==
    \A i \in 1..Len(index_keys) : index_keys[i][2] \in ValidSpecifiers

LoggedIndex(level, line, name, index) ==
    [level |-> level, line |-> line, name |-> name, index |-> index]

\* copy_indexes_if_not_exists, one turn of the loop of lines 80-116
ReconcileIndex(c) ==
    /\ pc[c] = "indexes"
    /\ idx[c] <= Len(primary[c].indexes)
    /\ LET index == primary[c].indexes[idx[c]]
           index_keys == index.key
           index_kwargs == index.opts \ {"ns"}
           primary_index_info == [key |-> index_keys, opts |-> index_kwargs]
           secondary_index_info == IndexInfo(secondary_indexes[c], index.name)
           differ == LoggedIndex("warning", 91, c, index.name)
       IN  IF primary_index_info # secondary_index_info
           THEN IF valid_key(index_keys)
                THEN \E outcome \in Outcomes :
                       LET r == Attempted(outcome, c,
                                  create_index(secondary[c], index_keys, index_kwargs))
                       IN  /\ Called(c, outcome, r,
                                     [op |-> "create_index", index |-> index.name,
                                      keys |-> index_keys, kwargs |-> index_kwargs])
                           /\ log' = log \cup {differ} \cup
                                {IF r.raised
                                 THEN LoggedIndex("error", 114, c, index.name)
                                 ELSE LoggedIndex("info", 112, c, index.name)}
                ELSE /\ log' = log \cup {differ,
                                         LoggedIndex("error", 104, c, index.name)}
                     /\ UNCHANGED <<secondary, calls, faults>>
           ELSE /\ log' = log \cup {LoggedIndex("info", 116, c, index.name)}
                /\ UNCHANGED <<secondary, calls, faults>>
    /\ idx' = [idx EXCEPT ![c] = @ + 1]
    /\ UNCHANGED <<primary, main_pc, runs, at_run_start, retry_error, pc, cursor, buffer,
                   attempt, secondary_indexes, view_pc, feedVars, diffVars>>

\* copy_collection_if_not_exists, line 158, after the loop over the indexes
FinishCollection(c) ==
    /\ pc[c] = "indexes"
    /\ idx[c] > Len(primary[c].indexes)
    /\ SetPc(c, "done")
    /\ log' = log \cup {Logged("info", 158, c)}
    /\ UNCHANGED <<primary, secondary, calls, faults, main_pc, runs, at_run_start, retry_error,
                   cursor, buffer, attempt, idx, secondary_indexes, view_pc,
                   feedVars, diffVars>>

\* the with block of line 269 ends when every task has ended
EndBulkCopy ==
    /\ main_pc = "bulk"
    /\ \A c \in CollNames : pc[c] \in Terminal
    /\ main_pc' = "idle"
    /\ UNCHANGED <<storeVars, runs, at_run_start, retry_error, pc, cursor, buffer, attempt,
                   idx, secondary_indexes, view_pc, feedVars, diffVars>>

\* lines 174-186: the keyword arguments of the view's create_collection call
ViewCreationOptions(options) ==
    LET view_collation == IF "collation" \in DOMAIN options
                          THEN options.collation ELSE EmptyDict
        skipped == "locale" \notin DOMAIN view_collation
                   /\ DOMAIN view_collation # {}
    IN  IF ~skipped /\ DOMAIN view_collation # {}
        THEN [viewOn |-> options.viewOn, pipeline |-> options.pipeline,
              collation |-> view_collation]
        ELSE [viewOn |-> options.viewOn, pipeline |-> options.pipeline]

\* copy_views_if_not_exists (lines 163-190), one turn of its loop
copy_views_if_not_exists(v) ==
    /\ main_pc = "idle"
    /\ runs >= 1
    /\ primary[v].type = "view"
    /\ view_pc[v] = "todo"
    /\ IF v \notin list_collection_names(secondary)
       THEN \E outcome \in Outcomes :
              LET options == ViewCreationOptions(primary[v].options)
                  r == Attempted(outcome, v,
                                 create_collection(secondary[v], options))
                  warned == IF "collation" \in DOMAIN primary[v].options
                               /\ "collation" \notin DOMAIN options
                               /\ DOMAIN primary[v].options.collation # {}
                            THEN {Logged("warning", 178, v)} ELSE {}
              IN  /\ Called(v, outcome, r,
                            [op |-> "create_collection", options |-> options])
                  /\ view_pc' = [view_pc EXCEPT ![v] =
                                    IF r.raised THEN "raised" ELSE "done"]
                  /\ log' = log \cup {Logged("info", 170, v)} \cup warned \cup
                       (IF r.raised THEN {}
                        ELSE IF "collation" \in DOMAIN options
                        THEN {Logged("info", 184, v)}
                        ELSE {Logged("info", 187, v)})
       ELSE /\ view_pc' = [view_pc EXCEPT ![v] = "done"]
            /\ log' = log \cup {Logged("info", 190, v)}
            /\ UNCHANGED <<secondary, calls, faults>>
    /\ UNCHANGED <<primary, main_pc, runs, at_run_start, retry_error, pc, cursor, buffer,
                   attempt, idx, secondary_indexes, feedVars, diffVars>>

\* a typical source collection and a typical source view
BaseIndexes == <<IdIndex, ByStatus>>
BaseView == [type |-> "view", options |-> [viewOn |-> "a", pipeline |-> "p"],
             docs |-> <<>>, indexes |-> <<>>]

\* collection "a" departs from the typical one in its options, in the number
\* of its documents, or in its indexes
VariedCollections ==
    SourceCollections(OptionChoices, {1}, {BaseIndexes})
    \cup SourceCollections({EmptyDict}, 0..MaxDocs, {BaseIndexes})
    \cup SourceCollections({EmptyDict}, {1}, IndexChoices)

\* collection "b" is a plain or a capped collection of one document
PlainCollections ==
    SourceCollections({EmptyDict, [capped |-> "True", size |-> "4096"]},
                      {1}, {<<IdIndex, ByHash>>})

Database(a, b, v) ==
    [n \in Names |-> IF n = "a" THEN a ELSE IF n = "b" THEN b ELSE v]

\* the source databases of the model
Sources ==
    {Database(a, b, BaseView) : a \in VariedCollections, b \in PlainCollections}
    \cup {Database(a, b, v) :
            a \in SourceCollections({EmptyDict}, {1}, {BaseIndexes}),
            b \in PlainCollections, v \in SourceViews}

NoChange == [operationType |-> "none"]
NoAnswer == [kind |-> "none"]

InitFeedIdle ==
    /\ feed_pc = "idle"
    /\ probe = NoAnswer
    /\ change = NoChange
    /\ consumed = 0
    /\ stream = {}

InitCompareIdle ==
    /\ cmp_pc = "idle"
    /\ common_collections = {}
    /\ collection_name = ""

InitDiffIdle ==
    /\ doc1 = <<>>
    /\ doc2 = <<>>
    /\ differences = <<>>
    /\ diff_pc = "idle"
    /\ InitCompareIdle

InitCopyIdle ==
    /\ main_pc = "idle"
    /\ runs = 0
    /\ at_run_start = secondary
    /\ pc = [c \in CollNames |-> "idle"]
    /\ cursor = [c \in CollNames |-> 0]
    /\ buffer = [c \in CollNames |-> <<>>]
    /\ attempt = [c \in CollNames |-> 0]
    /\ retry_error = [c \in CollNames |-> 0]
    /\ idx = [c \in CollNames |-> 0]
    /\ secondary_indexes = [c \in CollNames |-> <<>>]
    /\ view_pc = [v \in ViewNames |-> "todo"]

\* the databases before the tool runs: any source; on the target some of the
\* collections may exist already, empty
Init ==
    /\ primary \in Sources
    /\ \E existing \in SUBSET CollNames :
           secondary = [n \in Names |->
                          IF n \in existing THEN NewCollection(EmptyDict) ELSE Absent]
    /\ log = {}
    /\ calls = [n \in Names |-> <<>>]
    /\ faults = 0
    /\ InitCopyIdle
    /\ InitFeedIdle
    /\ InitDiffIdle

Next ==
    \/ StartBulkCopy
    \/ \E c \in CollNames :
           \/ CheckExists(c)
           \/ copy_collection_options(c)
           \/ copy_capped_collection_if_not_exists(c)
           \/ ScanNext(c)
           \/ batch_insert(c)
           \/ ReadIndexes(c)
           \/ ReconcileIndex(c)
           \/ FinishCollection(c)
    \/ EndBulkCopy
    \/ \E v \in ViewNames : copy_views_if_not_exists(v)

Spec == Init /\ [][Next]_vars

---------------------------------------------------------------------------
(* Properties of the bulk copy.                                            *)

CallsOf(n, op) == SelectSeq(calls[n], LAMBDA call : call.op = op)

RECURSIVE Payloads(_)
\* the documents of a sequence of insert_many calls, concatenated
Payloads(inserts) ==
    IF inserts = <<>> THEN <<>>
    ELSE Head(inserts).documents \o Payloads(Tail(inserts))

CeilDiv(n, b) == (n + b - 1) \div b

\* the copy of collection c is past copy_documents_in_batches
DocumentsCopied(c) ==
    /\ pc[c] \in {"read_indexes", "indexes", "done"}
    /\ ~IsCapped(primary[c].options)

\* C1: when no insert fails, copy_documents_in_batches makes ceil(N/B)
\* insert calls for a scan of N documents, none for N = 0, and their payloads
\* concatenated in call order are the scan.
C1_BatchCompleteness ==
    \A c \in CollNames :
        LET inserts == CallsOf(c, "insert_many")
        IN  (DocumentsCopied(c) /\ \A i \in 1..Len(inserts) : inserts[i].ok)
            => /\ Len(inserts) = CeilDiv(Len(primary[c].docs), BATCH_SIZE)
               /\ Payloads(inserts) = primary[c].docs

C1_Witness ==
    /\ pc["a"] = "done"
    /\ Len(primary["a"].docs) > BATCH_SIZE
    /\ Len(primary["a"].docs) < 2 * BATCH_SIZE
    /\ Len(CallsOf("a", "insert_many")) = 2
    /\ \A i \in 1..2 : CallsOf("a", "insert_many")[i].ok

OnTarget(c, keys) ==
    \E j \in 1..Len(secondary[c].indexes) : secondary[c].indexes[j].key = keys

HasIndexNamed(indexes, name) ==
    \E j \in 1..Len(indexes) : indexes[j].name = name

\* the direction/type tokens C3 allows, and the keys made of them alone
AllowedTokens == {"1", "-1", "2d", "2dsphere", "text", "hashed"}
OnlyAllowedTokens(keys) == \A i \in 1..Len(keys) : keys[i][2] \in AllowedTokens

\* C3 as stated: an index with an invalid key token is never the subject of a
\* create-index call; an index with valid tokens and no target index of its
\* name is on the target, keys in the source's order, when the bulk copy ends.
C3_ValidIndexAlwaysCreated ==
    \A c \in CollNames : \A i \in 1..Len(primary[c].indexes) :
        LET index == primary[c].indexes[i]
        IN  /\ ~OnlyAllowedTokens(index.key) =>
                \A k \in 1..Len(calls[c]) :
                    calls[c][k].op = "create_index" => calls[c][k].index # index.name
            /\ (/\ main_pc = "idle" /\ runs >= 1
                /\ OnlyAllowedTokens(index.key)
                /\ ~HasIndexNamed(at_run_start[c].indexes, index.name))
               => OnTarget(c, index.key)

\* the Index Reconciler of collection c is past the i-th source index
Reconciled(c, i) ==
    \/ pc[c] = "done"
    \/ pc[c] = "indexes" /\ idx[c] > i

\* C3 amended: no create-index call is ever made for an index with an invalid
\* key token; for an index with valid tokens that the target lacks when the
\* Index Reconciler reads the target's indexes, the reconciler makes a
\* create-index call with the keys in the source's order, and the index is
\* on the target with those keys unless that call failed.
C3_IndexValidityGate ==
    \A c \in CollNames : \A i \in 1..Len(primary[c].indexes) :
        LET index == primary[c].indexes[i]
            made == SelectSeq(calls[c], LAMBDA call :
                        call.op = "create_index" /\ call.index = index.name)
        IN  /\ ~OnlyAllowedTokens(index.key) => made = <<>>
            /\ (/\ Reconciled(c, i)
                /\ OnlyAllowedTokens(index.key)
                /\ ~HasIndexNamed(secondary_indexes[c], index.name))
               => /\ Len(made) = 1
                  /\ made[1].keys = index.key
                  /\ made[1].ok => OnTarget(c, index.key)

C3_Witness ==
    /\ pc["a"] = "done"
    /\ primary["a"].indexes = <<IdIndex, ByStatus, BadIndex>>
    /\ OnTarget("a", ByStatus.key)
    /\ ~OnTarget("a", BadIndex.key)
    /\ LoggedIndex("error", 104, "a", BadIndex.name) \in log

\* what C4 says of one creation call for a source with these options
CollationGate(options, call) ==
    "collation" \in DOMAIN options =>
        IF "locale" \in DOMAIN options.collation
        THEN \A k \in DOMAIN options :
                 k \in DOMAIN call.options /\ call.options[k] = options[k]
        ELSE "collation" \notin DOMAIN call.options

\* C4 as stated: for every collection and view, a collation without a locale
\* is in no creation call, and a collation with a locale is in the creation
\* call unchanged, with the other source options.
C4_CollationGateEverywhere ==
    \A n \in Names : \A k \in 1..Len(calls[n]) :
        calls[n][k].op = "create_collection"
            => CollationGate(primary[n].options, calls[n][k])

\* C4 for the views and the collections that are not capped: there the gate
\* holds (a capped collection is created with capped, size and max alone).
C4_CollationGate ==
    \A n \in Names : \A k \in 1..Len(calls[n]) :
        (calls[n][k].op = "create_collection" /\ ~IsCapped(primary[n].options))
            => CollationGate(primary[n].options, calls[n][k])

C4_Witness ==
    /\ primary["a"].options =
           [collation |-> CollationWithLocale, validator |-> "schema"]
    /\ Len(calls["a"]) >= 1
    /\ calls["a"][1].op = "create_collection"
    /\ calls["a"][1].ok
    /\ secondary["a"].options = primary["a"].options
    /\ view_pc["v"] = "done"

\* a log record of the failure of the copy of collection c
FailureLogged(c) ==
    \E entry \in log :
        /\ entry.name = c
        /\ entry.level \in {"warning", "error"}
        /\ entry.line \notin {60, 91, 104, 114}

\* the steps of the copy of collection c
CollectionStep(c) ==
    \/ CheckExists(c)
    \/ copy_collection_options(c)
    \/ copy_capped_collection_if_not_exists(c)
    \/ ScanNext(c)
    \/ batch_insert(c)
    \/ ReadIndexes(c)
    \/ ReconcileIndex(c)
    \/ FinishCollection(c)

\* C8, its second half: while the copy of one collection has failed, the copy
\* of every other collection that has not ended can take its next step.
C8_OthersProceed ==
    \A c, d \in CollNames :
        (pc[c] = "raised" /\ d # c /\ pc[d] \notin Terminal)
            => ENABLED CollectionStep(d)

\* C8: a failure raised while copying one collection is logged and does not
\* prevent the other collections from being processed to completion.
C8_FailureLoggedAndIsolated ==
    /\ \A c \in CollNames : pc[c] = "raised" => FailureLogged(c)
    /\ C8_OthersProceed

\* C9: batch_insert calls insert_many at most 3 times for a batch, again only
\* after a failed call, never after a successful one, and after the third
\* failed call it raises.
C9_BoundedRetry ==
    \A c \in CollNames :
        LET inserts == CallsOf(c, "insert_many")
            Same(i, j) == inserts[i].documents = inserts[j].documents
        IN  /\ \A i \in 1..Len(inserts) - 1 : Same(i, i + 1) <=> ~inserts[i].ok
            /\ \A i \in 1..Len(inserts) - 3 : ~(Same(i, i + 1) /\ Same(i, i + 2)
                                               /\ Same(i, i + 3))
            /\ \A i \in 1..Len(inserts) - 2 :
                   (Same(i, i + 2) /\ ~inserts[i + 2].ok)
                       => i + 2 = Len(inserts) /\ pc[c] = "raised"

C9_Witness ==
    LET inserts == CallsOf("a", "insert_many")
    IN  /\ pc["a"] = "raised"
        /\ Len(inserts) = 4
        /\ inserts[1].ok
        /\ \A i \in 2..4 : ~inserts[i].ok
        /\ Len(secondary["a"].docs) = BATCH_SIZE

\* the calls of the sequence made before its i-th
Before(made, i) == SubSeq(made, 1, i - 1)

\* C16: in the copy of a non-capped collection the Metadata Replicator has
\* run before the first insert call, and no create-index call is made before
\* the last batch, the final partial one included, has been inserted.
C16_StepOrder ==
    \A c \in CollNames :
        ~IsCapped(primary[c].options) =>
            /\ pc[c] \in {"queued", "create"} => calls[c] = <<>>
            /\ \A i \in 1..Len(calls[c]) :
                   LET call == calls[c][i]
                       inserted == SelectSeq(Before(calls[c], i),
                                       LAMBDA m : m.op = "insert_many" /\ m.ok)
                   IN  /\ call.op = "create_collection" => i = 1
                       /\ call.op = "insert_many" =>
                              \A j \in 1..(i - 1) : calls[c][j].op # "create_index"
                       /\ call.op = "create_index" =>
                              Payloads(inserted) = primary[c].docs

\* options, a full batch, the partial batch and then the index, in this order
C16_Witness ==
    /\ pc["a"] = "done"
    /\ Len(primary["a"].docs) = BATCH_SIZE + 1
    /\ Len(calls["a"]) = 3
    /\ calls["a"][1].op = "insert_many" /\ Len(calls["a"][1].documents) = BATCH_SIZE
    /\ calls["a"][2].op = "insert_many" /\ Len(calls["a"][2].documents) = 1
    /\ calls["a"][3].op = "create_index" /\ calls["a"][3].index = ByStatus.name
    /\ Logged("info", 67, "a") \in log

\* the bounds of a capped collection: its size, and its max or None
BoundsOf(options) ==
    <<options.size, IF "max" \in DOMAIN options THEN options.max ELSE "None">>

\* the copy of collection c made a create-index call for the index named name
IndexCallFor(c, name) ==
    \E k \in 1..Len(calls[c]) :
        calls[c][k].op = "create_index" /\ calls[c][k].index = name

\* C17: the copy of a capped source collection that is not on the target
\* starts with a creation call for a capped collection with the source's
\* size and max; when the store does not fail that call the target holds
\* the capped collection with these bounds, and the Index Reconciler runs
\* next; no document is inserted, and the target collection stays empty.
C17_CappedContainerOnly ==
    \A c \in CollNames :
        (IsCapped(primary[c].options) /\ ~at_run_start[c].exists) =>
            /\ secondary[c].docs = <<>>
            /\ CallsOf(c, "insert_many") = <<>>
            /\ pc[c] \in {"read_indexes", "indexes", "done", "raised"} =>
                   /\ calls[c][1].op = "create_collection"
                   /\ IsCapped(calls[c][1].options)
                   /\ BoundsOf(calls[c][1].options) = BoundsOf(primary[c].options)
                   /\ calls[c][1].ok <=> pc[c] # "raised"
            /\ pc[c] \in {"read_indexes", "indexes", "done"} =>
                   /\ IsCapped(secondary[c].options)
                   /\ BoundsOf(secondary[c].options) = BoundsOf(primary[c].options)
            /\ pc[c] = "done" =>
                   \A i \in 2..Len(primary[c].indexes) :
                       OnlyAllowedTokens(primary[c].indexes[i].key)
                           => IndexCallFor(c, primary[c].indexes[i].name)

\* the capped collection "a" with a max of 10 has been created with its
\* bounds, its index reconciled, and none of its documents copied
C17_Witness ==
    /\ pc["a"] = "done"
    /\ primary["a"].options = [capped |-> "True", size |-> "4096", max |-> "10"]
    /\ primary["a"].docs # <<>>
    /\ secondary["a"].options = [capped |-> "True", size |-> "4096", max |-> "10"]
    /\ secondary["a"].docs = <<>>
    /\ OnTarget("a", ByStatus.key)

\* the target held, when the Index Reconciler read its indexes, an index of
\* this name with the same keys and the same options, 'ns' left aside
IdenticalOnTarget(c, index) ==
    \E j \in 1..Len(secondary_indexes[c]) :
        LET held == secondary_indexes[c][j]
        IN  /\ held.name = index.name
            /\ held.key = index.key
            /\ held.opts \ {"ns"} = index.opts \ {"ns"}

\* C18: a failed create-index call is logged and ends nothing: every index
\* the reconciler has been through that differs from the target's or is
\* absent there, and is valid, has had its one create-index call; an index
\* identical on both sides has had none.
C18_IndexFailureIsolated ==
    \A c \in CollNames :
        /\ (\E k \in 1..Len(calls[c]) :
                calls[c][k].op = "create_index" /\ ~calls[c][k].ok)
               => pc[c] \in {"indexes", "done"}
        /\ \A i \in 1..Len(primary[c].indexes) :
               LET index == primary[c].indexes[i]
                   made == SelectSeq(calls[c], LAMBDA call :
                               call.op = "create_index" /\ call.index = index.name)
               IN  /\ \A k \in 1..Len(made) :
                          ~made[k].ok =>
                              LoggedIndex("error", 114, c, index.name) \in log
                   /\ Reconciled(c, i) =>
                          IF IdenticalOnTarget(c, index) THEN made = <<>>
                          ELSE OnlyAllowedTokens(index.key) => Len(made) = 1

\* the create-index call for the first index of "a" failed and was logged,
\* the one for the next index was made and worked, the identical _id index
\* had no call
C18_Witness ==
    /\ pc["a"] = "done"
    /\ primary["a"].indexes = <<IdIndex, ByStatus, ByHash>>
    /\ Len(calls["a"]) = 3
    /\ calls["a"][1].op = "insert_many"
    /\ calls["a"][2].op = "create_index" /\ ~calls["a"][2].ok
    /\ calls["a"][3].op = "create_index" /\ calls["a"][3].ok
    /\ LoggedIndex("error", 114, "a", ByStatus.name) \in log
    /\ ~OnTarget("a", ByStatus.key)
    /\ OnTarget("a", ByHash.key)

\* the copy of collection c has been through copy_collection_options
OptionsCopied(c) ==
    /\ ~IsCapped(primary[c].options)
    /\ pc[c] \notin {"idle", "queued", "create", "skipped"}

\* C13: an invocation of copy_collection_options makes exactly one
\* collection-creation call on the target, with the possibly amended options,
\* which are the defaults when they are empty.
C13_OneCreationCall ==
    \A c \in CollNames :
        OptionsCopied(c) =>
            LET made == CallsOf(c, "create_collection")
            IN  /\ Len(made) = 1
                /\ made[1].options = AmendedOptions(primary[c].options)

\* the insert_many calls of the copy of c that wrote their batch
Inserted(c) == SelectSeq(calls[c], LAMBDA call : call.op = "insert_many" /\ call.ok)

\* the copy of c in this run ended with the last MaxAttempts calls failing on
\* one batch, and made no call after them
EndedOnFailedBatch(c) ==
    LET made == calls[c]
        n == Len(made)
    IN  /\ pc[c] = "raised"
        /\ n >= MaxAttempts
        /\ \A i \in (n - MaxAttempts + 1)..n :
               /\ made[i].op = "insert_many"
               /\ ~made[i].ok
               /\ made[i].documents = made[n].documents
        /\ \A i \in 1..n : made[i].op # "create_index"

\* C21: when a batch of a collection has used up its three attempts, the
\* batches inserted before it stay on the target, no later batch is inserted
\* and no index is reconciled in that run; a later run finds the collection on
\* the target and skips it, leaving the missing documents missing.
C21_ExhaustedBatchLeavesPartialCopy ==
    \A c \in CollNames :
        /\ (retry_error[c] # 0 /\ retry_error[c] = runs) =>
               /\ EndedOnFailedBatch(c)
               /\ secondary[c].docs = Payloads(Inserted(c))
               /\ idx[c] = 0
        /\ (retry_error[c] # 0 /\ retry_error[c] < runs) =>
               /\ at_run_start[c].exists
               /\ pc[c] \in {"queued", "skipped"}
               /\ calls[c] = <<>>
               /\ secondary[c] = at_run_start[c]
               /\ Len(secondary[c].docs) < Len(primary[c].docs)

---------------------------------------------------------------------------
(* BSON values as Python sees them.  A value is a tagged record; the field *)
(* holding the payload has a different name per tag.  A mapping is the     *)
(* sequence of its <<key, value>> items in insertion order, as a Python    *)
(* dict iterates; a document is such a sequence too.                       *)

Null == [t |-> "null"]
NaN == [t |-> "nan"]
Num(n) == [t |-> "num", n |-> n]
List(s) == [t |-> "list", l |-> s]
Dict(items) == [t |-> "dict", d |-> items]

\* key in mapping
HasKey(items, key) == \E i \in 1..Len(items) : items[i][1] = key

\* mapping[key]
Get(items, key) == items[CHOOSE i \in 1..Len(items) : items[i][1] = key][2]

\* Python's value1 != value2 where compare_nested_fields applies it: never to
\* two dicts or two lists.  A float NaN is unequal to everything, itself
\* included; None equals None; values of different types are unequal.
PyNotEqual(value1, value2) ==
    IF value1.t # value2.t THEN TRUE
    ELSE IF value1.t = "nan" THEN TRUE
    ELSE IF value1.t = "null" THEN FALSE
    ELSE IF value1.t = "num" THEN value1.n # value2.n
    ELSE value1 # value2

is_none_only(value) == value.t = "null"

is_nan_or_none(value) == value.t = "null" \/ value.t = "nan"

\* "for key in b: if key not in a: append(missing)", the second loop of
\* compare_fields and of the dict branch of compare_nested_fields
MissingFrom(a, b, kind) ==
    LET absent == SelectSeq(b, LAMBDA kv : ~HasKey(a, kv[1]))
    IN  [i \in 1..Len(absent) |-> [kind |-> kind, field |-> absent[i][1]]]

RECURSIVE compare_nested_fields(_, _)
RECURSIVE NestedDictLoop(_, _, _)
RECURSIVE NestedListLoop(_, _, _)

\* for key in value1: ... (dict branch), from item i on
NestedDictLoop(d1, d2, i) ==
    IF i > Len(d1) THEN <<>>
    ELSE (IF HasKey(d2, d1[i][1])
          THEN compare_nested_fields(d1[i][2], Get(d2, d1[i][1]))
          ELSE <<[kind |-> "missing_in_second_nested", field |-> d1[i][1]]>>)
         \o NestedDictLoop(d1, d2, i + 1)

\* for i, (item1, item2) in enumerate(zip(value1, value2)), from element i on
NestedListLoop(l1, l2, i) ==
    IF i > Len(l1) THEN <<>>
    ELSE compare_nested_fields(l1[i], l2[i]) \o NestedListLoop(l1, l2, i + 1)

compare_nested_fields(value1, value2) ==
    IF value1.t = "dict" /\ value2.t = "dict"
    THEN NestedDictLoop(value1.d, value2.d, 1)
         \o MissingFrom(value1.d, value2.d, "missing_in_first_nested")
    ELSE IF value1.t = "list" /\ value2.t = "list"
    THEN IF Len(value1.l) # Len(value2.l)
         THEN <<[kind |-> "array_lengths_differ",
                 len1 |-> Len(value1.l), len2 |-> Len(value2.l)]>>
         ELSE NestedListLoop(value1.l, value2.l, 1)
    ELSE IF PyNotEqual(value1, value2)
         THEN <<[kind |-> "values_differ", db1 |-> value1, db2 |-> value2]>>
         ELSE <<>>

RECURSIVE FieldsLoop(_, _, _)

\* for key in doc1: ... (first loop of compare_fields), from item i on
FieldsLoop(d1, d2, i) ==
    IF i > Len(d1) THEN <<>>
    ELSE LET key == d1[i][1]
             nested_differences == compare_nested_fields(d1[i][2], Get(d2, key))
         IN  (IF ~HasKey(d2, key)
              THEN <<[kind |-> "missing_in_doc2", field |-> key]>>
              ELSE IF is_nan_or_none(d1[i][2]) /\ is_nan_or_none(Get(d2, key))
              THEN <<>>
              ELSE IF nested_differences # <<>>
              THEN <<[kind |-> "differences", field |-> key,
                      nested |-> nested_differences]>>
              ELSE <<>>)
             \o FieldsLoop(d1, d2, i + 1)

compare_fields(d1, d2) ==
    FieldsLoop(d1, d2, 1) \o MissingFrom(d1, d2, "missing_in_doc1")

---------------------------------------------------------------------------
(* The documents compare_fields is applied to.                             *)

Leaves == {Null, NaN, Num(1), Num(2)}

RECURSIVE ValuesOfDepth(_)
ValuesOfDepth(depth) ==
    IF depth = 0 THEN Leaves
    ELSE LET V == ValuesOfDepth(depth - 1)
         IN  Leaves
             \cup {List(<<>>)} \cup {List(<<v>>) : v \in V}
             \cup {Dict(<<>>)} \cup {Dict(<< <<"x", v>> >>) : v \in V}

\* the items a document may carry after its _id: "a" holds any value, "F" a leaf
OptionalItems(key, values) == {<<>>} \cup {<< <<key, v>> >> : v \in values}

DiffDocs ==
    {<< <<"_id", Num(1)>> >> \o a \o f :
        a \in OptionalItems("a", ValuesOfDepth(MaxDepth)),
        f \in OptionalItems("F", Leaves)}

\* the databases are not touched by compare_fields
InitStoreIdle ==
    /\ primary = [n \in Names |-> Absent]
    /\ secondary = [n \in Names |-> Absent]
    /\ log = {}
    /\ calls = [n \in Names |-> <<>>]
    /\ faults = 0

InitDiff ==
    /\ doc1 \in DiffDocs
    /\ doc2 \in DiffDocs
    /\ differences = <<>>
    /\ diff_pc = "ready"
    /\ InitCompareIdle
    /\ InitStoreIdle
    /\ InitCopyIdle
    /\ InitFeedIdle

CompareFields ==
    /\ diff_pc = "ready"
    /\ differences' = compare_fields(doc1, doc2)
    /\ diff_pc' = "done"
    /\ UNCHANGED <<doc1, doc2, cmpVars, storeVars, copyVars, feedVars>>

NextDiff == CompareFields

SpecDiff == InitDiff /\ [][NextDiff]_vars

---------------------------------------------------------------------------
(* compare_all_collections, with db1 in primary and db2 in secondary.      *)

RECURSIVE CollectionsLoop(_, _, _)
\* for doc1 in docs1: ... (lines 173-182), from document i on; docs2_dict
\* keeps the last document of each _id
CollectionsLoop(docs1, docs2, i) ==
    IF i > Len(docs1) THEN <<>>
    ELSE LET doc1_id == Get(docs1[i], "_id")
             keyed == {j \in 1..Len(docs2) : Get(docs2[j], "_id") = doc1_id}
             last == CHOOSE j \in keyed : \A k \in keyed : k <= j
             field_differences == compare_fields(docs1[i], docs2[last])
         IN  (IF keyed = {}
              THEN <<[kind |-> "missing_in_second_collection", id |-> doc1_id]>>
              ELSE IF field_differences # <<>>
              THEN <<[kind |-> "differences_in_document", id |-> doc1_id,
                      fields |-> field_differences]>>
              ELSE <<>>)
             \o CollectionsLoop(docs1, docs2, i + 1)

\* a comparison that passes over the first document of docs1
compare_later_documents(docs1, docs2) == CollectionsLoop(docs1, docs2, 2)

\* compare_collections, lines 169-184
compare_collections(docs1, docs2) == CollectionsLoop(docs1, docs2, 1)

\* check_for_duplicates, lines 195-200: the _id values held more than once
dup_list(docs) ==
    {Get(docs[i], "_id") : i \in 1..Len(docs)} \cap
    {Get(docs[i], "_id") : i \in {k \in 1..Len(docs) :
        \E j \in 1..Len(docs) : j # k /\ Get(docs[j], "_id") = Get(docs[k], "_id")}}

\* the call made for collection n, recorded in order
Compared(n, call) == calls' = [calls EXCEPT ![n] = Append(@, call)]

\* lines 217-228: the names on both databases; none, and the function returns
ListCommonCollections ==
    /\ cmp_pc = "start"
    /\ LET common == list_collection_names(primary)
                     \cap list_collection_names(secondary)
       IN  /\ common_collections' = common
           /\ cmp_pc' = IF common = {} THEN "done" ELSE "loop"
           /\ log' = log \cup {Logged("info", 221, ""), Logged("info", 222, "")}
                     \cup (IF common = {} THEN {Logged("warning", 227, "")} ELSE {})
    /\ UNCHANGED <<primary, secondary, calls, faults, collection_name, doc1, doc2,
                   differences, diff_pc, copyVars, feedVars>>

\* lines 230-231: the loop takes a name of the set, in no particular order
NextCollection ==
    /\ cmp_pc = "loop"
    /\ IF common_collections = {}
       THEN /\ cmp_pc' = "done"
            /\ UNCHANGED <<common_collections, collection_name, log>>
       ELSE \E n \in common_collections :
              /\ collection_name' = n
              /\ common_collections' = common_collections \ {n}
              /\ cmp_pc' = "counts"
              /\ log' = log \cup {Logged("info", 231, n)}
    /\ UNCHANGED <<primary, secondary, calls, faults, doc1, doc2, differences,
                   diff_pc, copyVars, feedVars>>

\* a comparison that ends at the first count mismatch
StopOnMismatch(match) == IF match THEN "indexes" ELSE "done"

\* lines 234-235: on a mismatch, continue with the next name
AfterCounts(match) == IF match THEN "indexes" ELSE "loop"

\* compare_collection_counts (lines 52-69), called at line 234
compare_collection_counts ==
    /\ cmp_pc = "counts"
    /\ LET n == collection_name
           count1 == Len(primary[n].docs)
           count2 == Len(secondary[n].docs)
       IN  /\ Compared(n, [op |-> "compare_collection_counts",
                           count1 |-> count1, count2 |-> count2])
           /\ log' = log \cup {IF count1 # count2 THEN Logged("warning", 65, n)
                               ELSE Logged("info", 68, n)}
           /\ cmp_pc' = AfterCounts(count1 = count2)
    /\ UNCHANGED <<primary, secondary, faults, common_collections, collection_name,
                   doc1, doc2, differences, diff_pc, copyVars, feedVars>>

\* compare_indexes (lines 72-87), called at line 238
compare_indexes ==
    /\ cmp_pc = "indexes"
    /\ LET n == collection_name
       IN  /\ Compared(n, [op |-> "compare_indexes"])
           /\ log' = log \cup {IF primary[n].indexes # secondary[n].indexes
                               THEN Logged("warning", 85, n)
                               ELSE Logged("info", 87, n)}
    /\ cmp_pc' = "documents"
    /\ UNCHANGED <<primary, secondary, faults, common_collections, collection_name,
                   doc1, doc2, differences, diff_pc, copyVars, feedVars>>

\* lines 241-252: both fetches, compare_collections and the report
CompareDocuments ==
    /\ cmp_pc = "documents"
    /\ LET n == collection_name
           found == compare_collections(primary[n].docs, secondary[n].docs)
       IN  /\ Compared(n, [op |-> "compare_collections"])
           /\ differences' = found
           /\ log' = log \cup {Logged("info", 35, n), Logged("info", 38, n),
                               Logged("info", 168, n)}
                     \cup {IF found # <<>> THEN Logged("info", 248, n)
                           ELSE Logged("info", 252, n)}
    /\ cmp_pc' = "duplicates_db1"
    /\ UNCHANGED <<primary, secondary, faults, common_collections, collection_name,
                   doc1, doc2, diff_pc, copyVars, feedVars>>

\* check_for_duplicates (lines 187-206), called at line 255 and at line 256
check_for_duplicates ==
    /\ cmp_pc \in {"duplicates_db1", "duplicates_db2"}
    /\ LET n == collection_name
           first == cmp_pc = "duplicates_db1"
           docs == IF first THEN primary[n].docs ELSE secondary[n].docs
       IN  /\ Compared(n, [op |-> "check_for_duplicates",
                           db |-> IF first THEN "db1" ELSE "db2"])
           /\ log' = log \cup {IF dup_list(docs) # {} THEN Logged("warning", 203, n)
                               ELSE Logged("info", 206, n)}
           /\ cmp_pc' = IF first THEN "duplicates_db2" ELSE "loop"
    /\ UNCHANGED <<primary, secondary, faults, common_collections, collection_name,
                   doc1, doc2, differences, diff_pc, copyVars, feedVars>>

\* the documents of the compared collections
ComparedDoc(id, value) == << <<"_id", Num(id)>>, <<"a", value>> >>

ComparedDocs ==
    { <<>>, <<ComparedDoc(1, Num(1))>>, <<ComparedDoc(1, Num(2))>>,
      <<ComparedDoc(2, Num(1))>>,
      <<ComparedDoc(1, Num(1)), ComparedDoc(2, NaN)>> }

\* field values with lists and embedded documents in them; the last two are
\* one embedded document written with its keys in two orders
NestedValues ==
    { List(<<Num(1)>>), List(<<Num(1), Num(2)>>), List(<<Num(2), Num(1)>>),
      Dict(<< <<"x", Num(1)>> >>), Dict(<< <<"x", List(<<Num(1)>>)>> >>),
      Dict(<< <<"x", Num(1)>>, <<"y", Num(2)>> >>),
      Dict(<< <<"y", Num(2)>>, <<"x", Num(1)>> >>) }

\* what find() on collection "a" may yield
NestedDocs ==
    ComparedDocs
    \cup {<<ComparedDoc(1, v)>> : v \in NestedValues}
    \cup { <<ComparedDoc(1, Num(1)), ComparedDoc(2, Num(1))>>,
           <<ComparedDoc(2, Num(1)), ComparedDoc(1, Num(1))>>,
           <<ComparedDoc(1, Num(1)), ComparedDoc(3, Num(1))>>,
           <<ComparedDoc(1, Num(2)), ComparedDoc(2, Num(1))>>,
           << << <<"_id", Num(1)>>, <<"a", Num(1)>>, <<"b", Num(1)>> >> >>,
           << << <<"_id", Num(1)>>, <<"b", Num(1)>>, <<"a", Num(1)>> >> >>,
           << << <<"_id", Num(1)>>, <<"a", Num(1)>>, <<"b", Num(2)>> >> >> }

\* what find() on collection "b" may yield
PlainDocs == {<<>>, <<ComparedDoc(1, Num(1))>>}

\* a name of a compared database: absent, or a collection
ComparedCollections(documents, indexes) ==
    {Absent} \cup
    {[exists |-> TRUE, options |-> EmptyDict, docs |-> docs, indexes |-> ix] :
        docs \in documents, ix \in indexes}

InitCompare ==
    /\ \E a \in ComparedCollections(NestedDocs, {<<IdIndex>>}),
          b \in ComparedCollections(PlainDocs, {<<IdIndex>>}) :
           primary = [n \in Names |->
                        IF n = "a" THEN a ELSE IF n = "b" THEN b
                        ELSE NewCollection([viewOn |-> "a", pipeline |-> "p"])]
    /\ \E a \in ComparedCollections(NestedDocs, {<<IdIndex>>, <<IdIndex, ByHash>>}),
          b \in ComparedCollections(PlainDocs, {<<IdIndex>>}) :
           secondary = [n \in Names |-> IF n = "a" THEN a ELSE IF n = "b" THEN b
                                        ELSE Absent]
    /\ log = {}
    /\ calls = [n \in Names |-> <<>>]
    /\ faults = 0
    /\ cmp_pc = "start"
    /\ common_collections = {}
    /\ collection_name = ""
    /\ doc1 = <<>>
    /\ doc2 = <<>>
    /\ differences = <<>>
    /\ diff_pc = "idle"
    /\ InitCopyIdle
    /\ InitFeedIdle

NextCompare ==
    \/ ListCommonCollections
    \/ NextCollection
    \/ compare_collection_counts
    \/ compare_indexes
    \/ CompareDocuments
    \/ check_for_duplicates

SpecCompare == InitCompare /\ [][NextCompare]_vars

---------------------------------------------------------------------------
(* The null/not-a-number equivalence below the top level.                  *)

RECURSIVE NullForNaN(_)
\* the value with every not-a-number in it, at any depth, read as null
NullForNaN(value) ==
    IF value.t = "nan" THEN Null
    ELSE IF value.t = "list"
    THEN List([i \in 1..Len(value.l) |-> NullForNaN(value.l[i])])
    ELSE IF value.t = "dict"
    THEN Dict([i \in 1..Len(value.d) |->
                 <<value.d[i][1], NullForNaN(value.d[i][2])>>])
    ELSE value

NullForNaNDoc(doc) == [i \in 1..Len(doc) |-> <<doc[i][1], NullForNaN(doc[i][2])>>]

\* C20: two documents that are the same once null and not-a-number are read
\* as one value, at whatever depth the value sits, have an empty diff.
C20_NestedNullNanNoFinding ==
    (diff_pc = "done" /\ NullForNaNDoc(doc1) = NullForNaNDoc(doc2))
        => differences = <<>>

---------------------------------------------------------------------------
(* Properties of compare_collections.                                      *)

RECURSIVE NoNullOrNaN(_)
\* neither null nor not-a-number occurs in the value, at any depth
NoNullOrNaN(value) ==
    IF value.t \in {"null", "nan"} THEN FALSE
    ELSE IF value.t = "list"
    THEN \A i \in 1..Len(value.l) : NoNullOrNaN(value.l[i])
    ELSE IF value.t = "dict"
    THEN \A i \in 1..Len(value.d) : NoNullOrNaN(value.d[i][2])
    ELSE TRUE

KeysOf(items) == {items[i][1] : i \in 1..Len(items)}

ValueAt(items, key) == items[CHOOSE i \in 1..Len(items) : items[i][1] = key][2]

RECURSIVE Structure(_)
\* a value up to the order in which a mapping lists its keys
Structure(value) ==
    IF value.t = "list"
    THEN [t |-> "list", l |-> [i \in 1..Len(value.l) |-> Structure(value.l[i])]]
    ELSE IF value.t = "dict"
    THEN [t |-> "dict",
          d |-> [k \in KeysOf(value.d) |-> Structure(ValueAt(value.d, k))]]
    ELSE value

\* a document as the mapping of its keys to the structure of their values
DocumentOf(doc) == [k \in KeysOf(doc) |-> Structure(ValueAt(doc, k))]

DocumentSet(docs) == {DocumentOf(docs[i]) : i \in 1..Len(docs)}

IdsOf(docs) == {ValueAt(docs[i], "_id") : i \in 1..Len(docs)}

\* two lists compare_collections is defined on by the claim: equal length,
\* unique identifiers, no null and no not-a-number
Comparable(docs1, docs2) ==
    /\ Len(docs1) = Len(docs2)
    /\ Cardinality(IdsOf(docs1)) = Len(docs1)
    /\ Cardinality(IdsOf(docs2)) = Len(docs2)
    /\ \A i \in 1..Len(docs1) : \A j \in 1..Len(docs1[i]) : NoNullOrNaN(docs1[i][j][2])
    /\ \A i \in 1..Len(docs2) : \A j \in 1..Len(docs2[i]) : NoNullOrNaN(docs2[i][j][2])

\* compare_collections has returned for the collection the loop holds
DocumentsCompared == cmp_pc \in {"duplicates_db1", "duplicates_db2"}

\* C22: on two lists of equal length with unique identifiers and neither null
\* nor not-a-number, compare_collections returns the empty list exactly when
\* the lists hold the same set of documents, and every document of the first
\* list whose identifier the second list lacks has its "missing" finding.
C22_EmptyIffSameDocuments ==
    LET docs1 == primary[collection_name].docs
        docs2 == secondary[collection_name].docs
    IN  (DocumentsCompared /\ Comparable(docs1, docs2)) =>
            /\ differences = <<>> <=> DocumentSet(docs1) = DocumentSet(docs2)
            /\ \A id \in IdsOf(docs1) \ IdsOf(docs2) :
                   \E i \in 1..Len(differences) :
                       differences[i] =
                           [kind |-> "missing_in_second_collection", id |-> id]

\* two documents held in opposite orders by the two lists compare as equal
C22_Witness ==
    LET docs1 == primary[collection_name].docs
        docs2 == secondary[collection_name].docs
    IN  /\ DocumentsCompared
        /\ Comparable(docs1, docs2)
        /\ Len(docs1) = 2
        /\ docs1[1] = docs2[2]
        /\ docs1[2] = docs2[1]
        /\ differences = <<>>

---------------------------------------------------------------------------
(* Properties of compare_all_collections.                                  *)

\* the comparisons made for collection c so far, in order
StepsRun(c) ==
    [i \in 1..Len(calls[c]) |->
        IF calls[c][i].op = "check_for_duplicates"
        THEN calls[c][i].db ELSE calls[c][i].op]

FullComparison ==
    <<"compare_collection_counts", "compare_indexes", "compare_collections",
      "db1", "db2">>

OnBothStores(c) == primary[c].exists /\ secondary[c].exists

CountsDiffer(c) == Len(primary[c].docs) # Len(secondary[c].docs)

\* the loop has taken c and is through with it
ComparisonOver(c) ==
    /\ OnBothStores(c)
    /\ cmp_pc \notin {"idle", "start"}
    /\ c \notin common_collections
    /\ collection_name = c => cmp_pc \in {"loop", "done"}

\* C19: for every collection on both stores, the comparisons run in the order
\* counts, indexes, documents, duplicates of db1, duplicates of db2; when the
\* counts differ the mismatch is reported and nothing but the count comparison
\* runs for it; when they are equal all five run; and the function ends only
\* when every common collection has been through this, so a mismatch on one
\* does not stop the others.
C19_CountShortCircuit ==
    \A c \in Names :
        /\ Len(StepsRun(c)) <= Len(FullComparison)
        /\ StepsRun(c) = SubSeq(FullComparison, 1, Len(StepsRun(c)))
        /\ ComparisonOver(c) =>
             IF CountsDiffer(c)
             THEN /\ StepsRun(c) = <<"compare_collection_counts">>
                  /\ Logged("warning", 65, c) \in log
             ELSE StepsRun(c) = FullComparison
        /\ (cmp_pc = "done" /\ OnBothStores(c)) => ComparisonOver(c) /\ calls[c] # <<>>

\* the function has ended with one collection cut short by a count mismatch
\* and another compared in full
C19_Witness ==
    /\ cmp_pc = "done"
    /\ \E c, d \in Names :
         /\ OnBothStores(c) /\ CountsDiffer(c)
         /\ StepsRun(c) = <<"compare_collection_counts">>
         /\ OnBothStores(d) /\ ~CountsDiffer(d)
         /\ StepsRun(d) = FullComparison

---------------------------------------------------------------------------
(* Properties of compare_fields.                                           *)

\* the document without its item named key
Without(doc, key) == SelectSeq(doc, LAMBDA kv : kv[1] # key)

\* the top-level findings of the result that name the field key
FindingsFor(key) ==
    SelectSeq(differences, LAMBDA finding : finding.field = key)

\* C6: two documents identical except that field F is present in only one
\* of them give exactly one finding, which names F and the side lacking it.
C6_ExactlyOneMissingFinding ==
    diff_pc = "done" =>
        /\ (HasKey(doc1, "F") /\ doc2 = Without(doc1, "F")) =>
               /\ Len(differences) = 1
               /\ differences[1].kind = "missing_in_doc2"
               /\ differences[1].field = "F"
        /\ (HasKey(doc2, "F") /\ doc1 = Without(doc2, "F")) =>
               /\ Len(differences) = 1
               /\ differences[1].kind = "missing_in_doc1"
               /\ differences[1].field = "F"

\* C7: a field that is null or not-a-number on both sides, in any of the
\* four combinations, yields no finding.
C7_NullNanNoFinding ==
    diff_pc = "done" =>
        \A i \in 1..Len(doc1) :
            LET key == doc1[i][1]
            IN  (/\ HasKey(doc2, key)
                 /\ doc1[i][2] \in {Null, NaN}
                 /\ Get(doc2, key) \in {Null, NaN})
                => FindingsFor(key) = <<>>

C7_Witness ==
    /\ diff_pc = "done"
    /\ HasKey(doc1, "a") /\ Get(doc1, "a") = Null
    /\ HasKey(doc2, "a") /\ Get(doc2, "a") = NaN
    /\ HasKey(doc1, "F") /\ Get(doc1, "F") = NaN
    /\ HasKey(doc2, "F") /\ Get(doc2, "F") = NaN

---------------------------------------------------------------------------
(* The change feed applier: start_db_change_stream.                        *)

\* what the command replSetGetStatus gives: a status document, with or
\* without the item "ok", or an error of the server or of the connection
ProbeAnswers ==
    {[kind |-> "status", ok |-> "1.0"], [kind |-> "status", ok |-> "0.0"],
     [kind |-> "status"],
     [kind |-> "OperationFailure"], [kind |-> "ConnectionFailure"]}

\* is_replica_set: only OperationFailure is caught
is_replica_set(answer) ==
    IF answer.kind = "status"
    THEN [raised |-> FALSE, log |-> {},
          value |-> "ok" \in DOMAIN answer /\ answer.ok = "1.0"]
    ELSE IF answer.kind = "OperationFailure"
    THEN [raised |-> FALSE, log |-> {Logged("warning", 213, "")},
          value |-> FALSE]
    ELSE [raised |-> TRUE, log |-> {}, value |-> FALSE]

\* the documents the events carry, and the documents the target starts with
FeedIds == 1..2
FeedDocument(id) == [_id |-> id, status |-> 2]
FlaggedDocument(id) == [_id |-> id, status |-> 1, temp_flag |-> 1, other |-> 1]

\* updateDescription.updatedFields and updateDescription.removedFields
UpdatedFieldChoices ==
    {EmptyDict, [status |-> 2], [other |-> 2], [status |-> 2, other |-> 2]}
RemovedFieldChoices ==
    {<<>>, <<"temp_flag">>, <<"other">>, <<"temp_flag", "other">>}

Range(list) == {list[i] : i \in 1..Len(list)}

\* an update names no field in both parts
UpdateDescriptions ==
    {d \in [updatedFields : UpdatedFieldChoices,
            removedFields : RemovedFieldChoices] :
        Range(d.removedFields) \cap DOMAIN d.updatedFields = {}}

\* the change events of the source
ChangeEvents ==
    {[operationType |-> op, ns |-> c, documentKey |-> id,
      fullDocument |-> FeedDocument(id)] :
        op \in {"insert", "replace"}, c \in CollNames, id \in FeedIds}
    \cup {[operationType |-> "delete", ns |-> c, documentKey |-> id] :
            c \in CollNames, id \in FeedIds}
    \cup {[operationType |-> "update", ns |-> "a", documentKey |-> id,
           updateDescription |-> d] :
            id \in FeedIds, d \in UpdateDescriptions}

\* lines 241-245 with the removed fields left out
set_only_query(updated_fields, removed_fields) ==
    IF updated_fields # EmptyDict THEN "$set" :> updated_fields ELSE EmptyDict

\* lines 241-245
update_query(updated_fields, removed_fields) ==
    (IF updated_fields # EmptyDict THEN "$set" :> updated_fields ELSE EmptyDict)
    @@ (IF removed_fields # <<>>
        THEN "$unset" :> [field \in Range(removed_fields) |-> ""]
        ELSE EmptyDict)

\* the document after the operators $set and $unset of an update
Updated(doc, update) ==
    LET set == IF "$set" \in DOMAIN update THEN update["$set"] ELSE EmptyDict
        unset == IF "$unset" \in DOMAIN update
                 THEN DOMAIN update["$unset"] ELSE {}
    IN  [f \in (DOMAIN doc \cup DOMAIN set) \ unset |->
            IF f \in DOMAIN set THEN set[f] ELSE doc[f]]

\* the store answers of the calls of the applier
Answer(coll) == [raised |-> FALSE, kind |-> "none", coll |-> coll]
Raise(kind, coll) == [raised |-> TRUE, kind |-> kind, coll |-> coll]

\* collection.insert_one(document)
insert_one(coll, document) ==
    LET r == insert_many(coll, <<document>>)
    IN  IF r.raised THEN Raise("PyMongoError", coll) ELSE Answer(r.coll)

\* collection.update_one({"_id": id}, update): pymongo refuses an empty
\* update with ValueError; no matching document, no change
update_one(coll, id, update) ==
    IF update = EmptyDict THEN Raise("ValueError", coll)
    ELSE Answer([coll EXCEPT !.docs =
                    [i \in 1..Len(@) |->
                        IF @[i]._id = id THEN Updated(@[i], update) ELSE @[i]]])

\* collection.replace_one({"_id": id}, document)
replace_one(coll, id, document) ==
    Answer([coll EXCEPT !.docs =
               [i \in 1..Len(@) |-> IF @[i]._id = id THEN document ELSE @[i]]])

\* collection.delete_one({"_id": id})
delete_one(coll, id) ==
    Answer([coll EXCEPT !.docs = SelectSeq(@, LAMBDA d : d._id # id)])

\* lines 232-256: the target call of one change event
Applied(coll, ev) ==
    IF ev.operationType = "insert"
    THEN insert_one(coll, ev.fullDocument)
    ELSE IF ev.operationType = "update"
    THEN update_one(coll, ev.documentKey,
                    update_query(ev.updateDescription.updatedFields,
                                 ev.updateDescription.removedFields))
    ELSE IF ev.operationType = "replace"
    THEN replace_one(coll, ev.documentKey, ev.fullDocument)
    ELSE delete_one(coll, ev.documentKey)

\* the line of the message that reports the applied event
AppliedLine(ev) ==
    IF ev.operationType = "insert" THEN 234
    ELSE IF ev.operationType = "update" THEN 248
    ELSE IF ev.operationType = "replace" THEN 252
    ELSE 256

\* an applier that lets the loop go on after a store error
KeepStreaming(r) ==
    IF ~r.raised \/ r.kind = "PyMongoError" THEN "streaming" ELSE "raised"

\* lines 224 and 258: the loop goes on after a call that returned; the
\* handler ends it on PyMongoError; any other exception leaves the function
AfterTurn(r) ==
    IF ~r.raised THEN "streaming"
    ELSE IF r.kind = "PyMongoError" THEN "returned"
    ELSE "raised"

\* line 220: the probe, and the branch of line 260 when it answers False
CheckReplicaSet ==
    /\ feed_pc = "unsubscribed"
    /\ \E answer \in ProbeAnswers :
           LET r == is_replica_set(answer)
           IN  /\ probe' = answer
               /\ feed_pc' = IF r.raised THEN "raised"
                             ELSE IF r.value THEN "capable" ELSE "returned"
               /\ log' = log \cup r.log \cup
                         (IF ~r.raised /\ ~r.value
                          THEN {Logged("info", 261, "")} ELSE {})
    /\ UNCHANGED <<primary, secondary, calls, faults, change, consumed, stream,
                   copyVars, diffVars>>

\* line 222: the subscription to the feed of the whole source database
Watch ==
    /\ feed_pc = "capable"
    /\ \E outcome \in Outcomes :
           /\ feed_pc' = IF outcome = "ok" THEN "streaming" ELSE "returned"
           /\ faults' = IF outcome = "ok" THEN faults ELSE faults + 1
           /\ log' = log \cup {IF outcome = "ok" THEN Logged("info", 223, "")
                               ELSE Logged("error", 259, "")}
    /\ UNCHANGED <<primary, secondary, calls, probe, change, consumed, stream,
                   copyVars, diffVars>>

\* lines 224-256: one turn of the loop, with the handler of line 258
ApplyChange ==
    /\ feed_pc = "streaming"
    /\ consumed < MaxEvents
    /\ \E ev \in stream, outcome \in Outcomes :
           LET coll == secondary[ev.ns]
               r == IF outcome = "ok" THEN Applied(coll, ev)
                    ELSE Raise("PyMongoError", coll)
           IN  /\ change' = ev
               /\ consumed' = consumed + 1
               /\ secondary' = [secondary EXCEPT ![ev.ns] = r.coll]
               /\ faults' = IF outcome = "ok" THEN faults ELSE faults + 1
               /\ feed_pc' = AfterTurn(r)
               /\ log' = log \cup
                         (IF ~r.raised THEN {Logged("info", AppliedLine(ev), ev.ns)}
                          ELSE IF r.kind = "PyMongoError"
                          THEN {Logged("error", 259, "")}
                          ELSE {})
    /\ UNCHANGED <<primary, calls, probe, stream, copyVars, diffVars>>

\* line 224: the stream itself fails while the loop waits for an event
StreamError ==
    /\ feed_pc = "streaming"
    /\ faults < MaxFaults
    /\ faults' = faults + 1
    /\ feed_pc' = "returned"
    /\ log' = log \cup {Logged("error", 259, "")}
    /\ UNCHANGED <<primary, secondary, calls, probe, change, consumed, stream,
                   copyVars, diffVars>>

\* the target when the thread of line 285 starts: whatever the bulk copy
\* found or left there
FeedTargets ==
    {[n \in Names |->
        IF n = "a" THEN [NewCollection(EmptyDict) EXCEPT !.docs = docs]
        ELSE Absent] :
        docs \in {<<>>, <<FlaggedDocument(1)>>,
                  <<FlaggedDocument(1), FlaggedDocument(2)>>}}
    \cup {[n \in Names |-> Absent]}

InitFeed ==
    /\ primary = [n \in Names |-> Absent]
    /\ secondary \in FeedTargets
    /\ log = {}
    /\ calls = [n \in Names |-> <<>>]
    /\ faults = 0
    /\ feed_pc = "unsubscribed"
    /\ probe = NoAnswer
    /\ change = NoChange
    /\ consumed = 0
    /\ stream = ChangeEvents
    /\ InitCopyIdle
    /\ InitDiffIdle

NextFeed ==
    \/ CheckReplicaSet
    \/ Watch
    \/ ApplyChange
    \/ StreamError

SpecFeed == InitFeed /\ [][NextFeed]_vars

---------------------------------------------------------------------------
(* A bulk copy beside a streaming applier.  main starts its applier after  *)
(* its own bulk copy (lines 275-286) and then never returns (line 290), so *)
(* the bulk copy that runs while an applier streams is that of another run *)
(* of the tool on the same two stores.                                     *)

\* the sources of the two writers: collection "a", with or without options,
\* has a batch and one document; collection "b", plain or capped, has one
SyncSources ==
    {Database(a, b, BaseView) :
        a \in SourceCollections({EmptyDict, [validator |-> "schema"]},
                                {BATCH_SIZE + 1}, {BaseIndexes}),
        b \in SourceCollections({EmptyDict, [capped |-> "True", size |-> "4096"]},
                                {1}, {<<IdIndex>>})}

\* the feed of such a source: the insert of each document of "a", and an
\* update and a delete of its first
SyncEvents(db) ==
    {[operationType |-> "insert", ns |-> "a", documentKey |-> d._id,
      fullDocument |-> d] : d \in Range(db["a"].docs)}
    \cup {[operationType |-> "update", ns |-> "a", documentKey |-> 1,
           updateDescription |->
               [updatedFields |-> [status |-> 2], removedFields |-> <<>>]],
          [operationType |-> "delete", ns |-> "a", documentKey |-> 1]}

\* the one bulk copy run of the model is still to start
InitSyncCopy ==
    /\ main_pc = "idle"
    /\ runs = MaxRuns - 1
    /\ at_run_start = secondary
    /\ pc = [c \in CollNames |-> "idle"]
    /\ cursor = [c \in CollNames |-> 0]
    /\ buffer = [c \in CollNames |-> <<>>]
    /\ attempt = [c \in CollNames |-> 0]
    /\ retry_error = [c \in CollNames |-> 0]
    /\ idx = [c \in CollNames |-> 0]
    /\ secondary_indexes = [c \in CollNames |-> <<>>]
    /\ view_pc = [v \in ViewNames |-> "todo"]

\* the stores when both writers start; of the store failures of the model
\* one is still to come
InitSync ==
    /\ primary \in SyncSources
    /\ secondary = [n \in Names |-> Absent]
    /\ log = {}
    /\ calls = [n \in Names |-> <<>>]
    /\ faults = MaxFaults - 1
    /\ feed_pc = "unsubscribed"
    /\ probe = NoAnswer
    /\ change = NoChange
    /\ consumed = 0
    /\ stream = SyncEvents(primary)
    /\ InitSyncCopy
    /\ InitDiffIdle

NextSync ==
    \/ Next
    \/ NextFeed

SpecSync == InitSync /\ [][NextSync]_vars

---------------------------------------------------------------------------
(* Properties of the change feed applier.                                  *)

\* the turn of the loop that took the update event change' and whose target
\* call the store did not fail
UpdateTurn ==
    /\ consumed' = consumed + 1
    /\ change'.operationType = "update"
    /\ faults' = faults

\* the document after has the fields of updated at their values, none of
\* the fields of removed, and every other field as the document before
IsUpdateOf(after, before, updated, removed) ==
    /\ \A f \in DOMAIN updated : f \in DOMAIN after /\ after[f] = updated[f]
    /\ Range(removed) \cap DOMAIN after = {}
    /\ DOMAIN after \subseteq DOMAIN before \cup DOMAIN updated
    /\ \A f \in DOMAIN before \ (DOMAIN updated \cup Range(removed)) :
           f \in DOMAIN after /\ after[f] = before[f]

\* C5: an update event whose document is on the target leaves that document
\* with every set field at its value, without the unset fields and with its
\* other fields unchanged, and changes no other document of the target; an
\* empty set-fields mapping or unset-field set included.
C5_UpdateApplied ==
    [][(/\ UpdateTurn
        /\ change'.documentKey \in Ids(secondary[change'.ns].docs))
       => LET before == secondary[change'.ns].docs
              after == secondary'[change'.ns].docs
              description == change'.updateDescription
          IN  /\ Len(after) = Len(before)
              /\ \A i \in 1..Len(before) :
                     IF before[i]._id = change'.documentKey
                     THEN IsUpdateOf(after[i], before[i],
                                     description.updatedFields,
                                     description.removedFields)
                     ELSE after[i] = before[i]
              /\ \A n \in Names \ {change'.ns} : secondary'[n] = secondary[n]
      ]_vars

\* the update that sets status and removes temp_flag has been applied to
\* document 1, which keeps its field other
C5_Witness ==
    /\ consumed = 1
    /\ feed_pc = "streaming"
    /\ change.operationType = "update"
    /\ change.documentKey = 1
    /\ change.updateDescription =
           [updatedFields |-> [status |-> 2], removedFields |-> <<"temp_flag">>]
    /\ secondary["a"].docs =
           <<[_id |-> 1, status |-> 2, other |-> 1], FlaggedDocument(2)>>
    /\ Logged("info", 248, "a") \in log

\* C10: the applier starts Unsubscribed and streams only after a probe that
\* succeeded; a probe that failed, whatever its error, counts as not
\* capable: the applier returns without subscribing, with the reason logged
\* and no event applied.
C10_ProbeFailureNotCapable ==
    /\ probe = NoAnswer => feed_pc = "unsubscribed"
    /\ (feed_pc \in {"capable", "streaming"} \/ consumed > 0)
           => probe = [kind |-> "status", ok |-> "1.0"]
    /\ probe.kind \in {"OperationFailure", "ConnectionFailure"}
           => /\ feed_pc = "returned"
              /\ \E entry \in log : entry.line \in {213, 261}
              /\ Logged("info", 223, "") \notin log
              /\ consumed = 0

\* the turn of the loop whose target call raised a store error: the store
\* failed the call, or the inserted identifier was on the target already
StoreErrorTurn ==
    /\ consumed' = consumed + 1
    /\ \/ faults' = faults + 1
       \/ /\ change'.operationType = "insert"
          /\ change'.documentKey \in Ids(secondary[change'.ns].docs)

\* C11: the first store error raised while an event is applied is logged and
\* ends the applier, which applies no event after it; the failing turn
\* changes nothing of the bulk copy, and while the applier has ended every
\* collection whose copy has not ended can take its next step.
C11_StoreErrorEndsFeed ==
    [][/\ StoreErrorTurn
           => /\ Logged("error", 259, "") \in log'
              /\ feed_pc' = "returned"
              /\ secondary' = secondary
              /\ copyVars' = copyVars
       /\ feed_pc = "returned"
           => /\ feed_pc' = "returned"
              /\ consumed' = consumed
              /\ change' = change
              /\ \A c \in CollNames :
                     pc[c] \notin Terminal => ENABLED CollectionStep(c)
      ]_vars

\* the insert event of document 1 failed on the identifier the bulk copy had
\* inserted, the applier ended, and the bulk copy of "a" went to its end
C11_Witness ==
    /\ feed_pc = "returned"
    /\ consumed = 1
    /\ change.operationType = "insert"
    /\ change.documentKey = 1
    /\ faults = MaxFaults - 1
    /\ Logged("error", 259, "") \in log
    /\ Logged("info", 234, "a") \notin log
    /\ pc["a"] = "done"
    /\ secondary["a"].docs = primary["a"].docs

\* the turn of the loop that took an update, replace or delete event whose
\* identifier is on no document of the target collection, the store not
\* failing the call
MissingDocumentTurn ==
    /\ consumed' = consumed + 1
    /\ change'.operationType \in {"update", "replace", "delete"}
    /\ change'.documentKey \notin Ids(secondary[change'.ns].docs)
    /\ faults' = faults

\* C12: an update, replace or delete event whose identifier matches no
\* document of the target collection leaves the target unchanged and the
\* applier Streaming.
C12_MissingDocumentIsNoOp ==
    [][MissingDocumentTurn
           => /\ secondary' = secondary
              /\ feed_pc' = "streaming"
      ]_vars

\* the step of the copy of collection c that follows its existence check,
\* taken when the applier has created c on the target since that check, the
\* store not failing the step's call
CreationAfterRace(c) ==
    /\ pc[c] = "create"
    /\ secondary[c].exists
    /\ pc'[c] # "create"
    /\ faults' = faults

\* C14: when the applier creates the collection between the existence check
\* of its bulk copy and the creation call, the outcome of that call is
\* benign: the bulk copy of the collection is not aborted and goes on to
\* its documents and indexes.
C14_AlreadyExistsIsBenign ==
    [][\A c \in CollNames :
           CreationAfterRace(c) => pc'[c] \in {"scan", "read_indexes"}
      ]_vars

\* the copies of document d the target collection c holds
CopiesOf(c, d) ==
    Cardinality({i \in 1..Len(secondary[c].docs) : secondary[c].docs[i]._id = d._id})

\* the bulk copy of c has ended and the applier has applied one event, the
\* insert of a document of c, no store call having failed by itself
BothWrote(c) ==
    /\ pc[c] \in {"done", "skipped", "raised"}
    /\ consumed = 1
    /\ change.operationType = "insert"
    /\ change.ns = c
    /\ faults = MaxFaults - 1

\* C15: however the bulk copy of a collection and the applier's insert of a
\* document of that collection interleave, the target ends with one copy of
\* every source document of the collection, and neither writer has failed.
C15_WritersConverge ==
    \A c \in CollNames :
        BothWrote(c) =>
            /\ \A d \in Range(primary[c].docs) : CopiesOf(c, d) = 1
            /\ pc[c] # "raised"
            /\ feed_pc = "streaming"

=============================================================================
